---- MODULE Spec2Model ----
(***************************************************************************)
(* Model of src/index.js: an Express server holding one process-wide       *)
(* MongoDB connection slot (mongoClient, db, isConnected) and the handlers *)
(* that browse, read, update and delete documents of a collection.         *)
(*                                                                         *)
(* The remote store is one collection, a sequence of documents in natural  *)
(* (insertion) order with unique _id.  Values are tagged records so that   *)
(* an ObjectId and the string it was decoded from are different values.    *)
(***************************************************************************)
EXTENDS Integers, Sequences, FiniteSets, TLC

VARIABLES mongoClient, db, isConnected, clients, req, discDone, coll, last

vars == <<mongoClient, db, isConnected, clients, req, discDone, coll, last>>

connVars == <<mongoClient, db, isConnected, clients, req, discDone>>

(***************************************************************************)
(* Bounds of the model.                                                    *)
(***************************************************************************)
\* clients the server may create in one run (one per connect that gets that
\* far): the one of a first connection and those of two overlapping reconnects
MaxClients == 3
\* connect/disconnect requests that may be in flight at the same time
MaxReqs == 2
\* documents in the collection at the start of a run of SpecData
MaxDocs == 2

(***************************************************************************)
(* Strings.  A string of the universe is a TLA+ string; Chars gives its    *)
(* characters so that the checks the code makes on a string (length, hex   *)
(* digits, case-insensitive substring) are computed and not assumed.       *)
(***************************************************************************)
Rep(c, n) == [i \in 1..n |-> c]

H1 == "aaaaaaaaaaaaaaaaaaaaaaaa"
H2 == "bbbbbbbbbbbbbbbbbbbbbbbb"
S1 == "u1"

Chars(s) ==
    CASE s = H1 -> Rep("a", 24)
      [] s = H2 -> Rep("b", 24)
      [] s = "u1" -> <<"u", "1">>
      [] s = "U1" -> <<"U", "1">>
      [] s = "a"  -> <<"a">>
      [] s = "b"  -> <<"b">>
      [] s = "("  -> <<"(">>
      [] s = ""   -> <<>>

HexDigits == {"0", "1", "2", "3", "4", "5", "6", "7", "8", "9",
              "a", "b", "c", "d", "e", "f", "A", "B", "C", "D", "E", "F"}

LowerChar(c) ==
    CASE c = "A" -> "a" [] c = "B" -> "b" [] c = "U" -> "u" [] OTHER -> c

Lower(cs) == [i \in 1..Len(cs) |-> LowerChar(cs[i])]

\* cs contains sub as a contiguous run
Contains(cs, sub) ==
    \E k \in 0..(Len(cs) - Len(sub)) :
        \A i \in 1..Len(sub) : cs[k + i] = sub[i]

(***************************************************************************)
(* Values of document fields.                                              *)
(***************************************************************************)
None == [t |-> "none", v |-> ""]
Str(s) == [t |-> "str", v |-> s]
Date(s) == [t |-> "date", v |-> s]

\* ObjectId.isValid on a string: 24 hexadecimal characters.  (The universe
\* holds no 12-character string, the other form some bson versions accept.)
ObjectIdIsValid(id) ==
    /\ Len(Chars(id)) = 24
    /\ \A i \in 1..24 : Chars(id)[i] \in HexDigits

\* new ObjectId(hex): the 12-byte key, a value of its own type
ObjectId(id) == [t |-> "oid", v |-> id]

\* new Date() on the server
ServerNow == Date("now")

DocFields == {"_id", "sessionId", "userId", "chatId", "name", "updatedAt"}

Get(doc, f) == IF f \in DOMAIN doc THEN doc[f] ELSE None

(***************************************************************************)
(* Query predicates: a function from keys to conditions.  The key "$or"    *)
(* carries a sequence of predicates; any other key is a field name with a  *)
(* condition on the field's value.                                         *)
(***************************************************************************)
Eq(val) == [op |-> "eq", arg |-> val]
In(vals) == [op |-> "in", arg |-> vals]
Regex(pat) == [op |-> "regex", arg |-> pat]

EmptyQuery == <<>>

\* a RegExp built with flag 'i' from a plain pattern tests for a
\* case-insensitive occurrence; only strings can match a regex
RegExpTest(pat, val) ==
    /\ val.t = "str"
    /\ Contains(Lower(Chars(val.v)), Lower(Chars(pat)))

CondHolds(val, cond) ==
    CASE cond.op = "eq" -> val = cond.arg
      [] cond.op = "in" -> val \in cond.arg
      [] cond.op = "regex" -> RegExpTest(cond.arg, val)

RECURSIVE Matches(_, _)
Matches(doc, q) ==
    \A k \in DOMAIN q :
        IF k = "$or"
        THEN \E i \in 1..Len(q[k]) : Matches(doc, q[k][i])
        ELSE CondHolds(Get(doc, k), q[k])

\* { ...a, ...b }: the keys of both, b's value where both have the key
Spread(a, b) ==
    [k \in (DOMAIN a) \cup (DOMAIN b) |-> IF k \in DOMAIN b THEN b[k] ELSE a[k]]

(***************************************************************************)
(* The driver's collection operations on a sequence of documents.          *)
(***************************************************************************)
MatchIdx(c, q) == {i \in 1..Len(c) : Matches(c[i], q)}

Min(S) == CHOOSE x \in S : \A y \in S : x <= y

\* findOne: the first matching document in natural order, <<>> when none
FindOne(c, q) ==
    IF MatchIdx(c, q) = {} THEN <<>> ELSE <<c[Min(MatchIdx(c, q))]>>

RECURSIVE Filter(_, _)
Filter(c, q) ==
    IF c = <<>> THEN <<>>
    ELSE IF Matches(Head(c), q) THEN <<Head(c)>> \o Filter(Tail(c), q)
         ELSE Filter(Tail(c), q)

RemoveAt(c, i) == SubSeq(c, 1, i - 1) \o SubSeq(c, i + 1, Len(c))

\* $set: every field of the patch is written to the document
ApplySet(doc, set) == Spread(doc, set)

\* updateOne(q, {$set: set}): the first match is rewritten
UpdateOne(c, q, set) ==
    IF MatchIdx(c, q) = {}
    THEN [coll |-> c, matchedCount |-> 0, modifiedCount |-> 0]
    ELSE LET i == Min(MatchIdx(c, q))
             d == ApplySet(c[i], set)
         IN [coll |-> [c EXCEPT ![i] = d], matchedCount |-> 1,
             modifiedCount |-> IF d = c[i] THEN 0 ELSE 1]

\* deleteOne(q): the first match is removed
DeleteOne(c, q) ==
    IF MatchIdx(c, q) = {}
    THEN [coll |-> c, deletedCount |-> 0]
    ELSE [coll |-> RemoveAt(c, Min(MatchIdx(c, q))), deletedCount |-> 1]

RECURSIVE Reject(_, _)
Reject(c, q) ==
    IF c = <<>> THEN <<>>
    ELSE IF Matches(Head(c), q) THEN Reject(Tail(c), q)
         ELSE <<Head(c)>> \o Reject(Tail(c), q)

\* deleteMany(q): every match is removed
DeleteMany(c, q) ==
    [coll |-> Reject(c, q), deletedCount |-> Cardinality(MatchIdx(c, q))]

(***************************************************************************)
(* Sorting.  BSON orders values by type first (missing/null, then string,  *)
(* then ObjectId, then date) and strings by their bytes.  The order of     *)
(* documents that tie on the sort key is not fixed by the store.           *)
(***************************************************************************)
CharCode(ch) ==
    CASE ch = "(" -> 40 [] ch = "1" -> 49 [] ch = "A" -> 65 [] ch = "B" -> 66
      [] ch = "U" -> 85 [] ch = "a" -> 97 [] ch = "b" -> 98 [] ch = "u" -> 117

RECURSIVE LexLess(_, _)
LexLess(a, b) ==
    IF b = <<>> THEN FALSE
    ELSE IF a = <<>> THEN TRUE
    ELSE IF CharCode(Head(a)) # CharCode(Head(b))
         THEN CharCode(Head(a)) < CharCode(Head(b))
         ELSE LexLess(Tail(a), Tail(b))

TypeRank(val) ==
    CASE val.t = "none" -> 1 [] val.t = "str" -> 2 [] val.t = "oid" -> 3
      [] val.t = "date" -> 4

ValLess(x, y) ==
    /\ x # y
    /\ \/ TypeRank(x) < TypeRank(y)
       \/ TypeRank(x) = TypeRank(y) /\ LexLess(Chars(x.v), Chars(y.v))

Perms(n) == {p \in [1..n -> 1..n] : \A i, j \in 1..n : i # j => p[i] # p[j]}

\* the orders find(...).sort({[sortBy]: dir}) may return the sequence c in
SortedOrders(c, sortBy, dir) ==
    {[i \in 1..Len(c) |-> c[p[i]]] : p \in
        {p \in Perms(Len(c)) :
            \A i, j \in 1..Len(c) :
                i < j => IF dir = -1
                         THEN ~ValLess(Get(c[p[i]], sortBy), Get(c[p[j]], sortBy))
                         ELSE ~ValLess(Get(c[p[j]], sortBy), Get(c[p[i]], sortBy))}}

\* cursor.skip(n).limit(m)
SkipLimit(c, n, m) ==
    IF n >= Len(c) THEN <<>>
    ELSE SubSeq(c, n + 1, IF n + m < Len(c) THEN n + m ELSE Len(c))

(***************************************************************************)
(* The identifier predicates of the single-document handlers.              *)
(***************************************************************************)
ByPrimaryKey(id) == ("_id" :> Eq(ObjectId(id)))

\* the $or of getOne's second lookup
GetOneFallback(id) ==
    ("$or" :> << ("sessionId" :> Eq(Str(id))), ("userId" :> Eq(Str(id))),
                 ("chatId" :> Eq(Str(id))), ("_id" :> Eq(Str(id))) >>)

\* the $or of update and deleteOne when the id is no ObjectId
ByAlternateFields(id) ==
    ("$or" :> << ("sessionId" :> Eq(Str(id))), ("userId" :> Eq(Str(id))),
                 ("chatId" :> Eq(Str(id))) >>)

\* mutant of GetOneDoc: the fallback lookup runs first
GetOneDocFallbackFirst(c, id) ==
    LET first == FindOne(c, GetOneFallback(id))
    IN IF first # <<>> \/ ~ObjectIdIsValid(id) THEN first
       ELSE FindOne(c, ByPrimaryKey(id))

\* getOne: by primary key when the id is valid, then the fallback when that
\* found nothing; <<>> when no document matched
GetOneDoc(c, id) ==
    LET first == IF ObjectIdIsValid(id) THEN FindOne(c, ByPrimaryKey(id)) ELSE <<>>
    IN IF first # <<>> THEN first ELSE FindOne(c, GetOneFallback(id))

UpdateQuery(id) ==
    IF ObjectIdIsValid(id) THEN ByPrimaryKey(id) ELSE ByAlternateFields(id)

DeleteQuery(id) ==
    IF ObjectIdIsValid(id) THEN ByPrimaryKey(id) ELSE ByAlternateFields(id)

\* mutant of StripId: the _id of the body is left in the patch
StripIdForgotten(updates) == updates

\* delete updates._id
StripId(updates) == [k \in (DOMAIN updates) \ {"_id"} |-> updates[k]]

\* mutant of SetDoc: the spread comes last, the body's updatedAt wins
SetDocBodyLast(updates) == Spread(("updatedAt" :> ServerNow), updates)

\* { ...updates, updatedAt: new Date() }
SetDoc(updates) == Spread(updates, ("updatedAt" :> ServerNow))

UpdateResult(c, id, body) == UpdateOne(c, UpdateQuery(id), SetDoc(StripId(body)))

\* mutant of UpdateStatus: an unchanged document is reported as not found
UpdateStatusByModified(result) == IF result.modifiedCount = 0 THEN 404 ELSE 200

\* if (result.matchedCount === 0) return res.status(404); res.json({success: true})
UpdateStatus(result) == IF result.matchedCount = 0 THEN 404 ELSE 200

DeleteResult(c, id) == DeleteOne(c, DeleteQuery(id))

(***************************************************************************)
(* bulkDelete.  The body's ids is absent, something that is no array, or   *)
(* an array of strings.                                                    *)
(***************************************************************************)
IdsAbsent == [kind |-> "absent", items |-> <<>>]
IdsNotList == [kind |-> "string", items |-> <<>>]
IdsList(items) == [kind |-> "list", items |-> items]

\* mutant of BulkIdsRejected: the empty list is let through
BulkIdsRejectedNoLength(ids) == ids.kind = "absent" \/ ids.kind # "list"

\* !ids || !Array.isArray(ids) || ids.length === 0
BulkIdsRejected(ids) ==
    ids.kind = "absent" \/ ids.kind # "list" \/ Len(ids.items) = 0

\* objectIds.filter(id => id instanceof ObjectId)
BulkObjectIds(items) ==
    {ObjectId(items[i]) : i \in {j \in 1..Len(items) : ObjectIdIsValid(items[j])}}

\* mutant of BulkStrings: the valid ids stay among the strings
BulkStringsUnfiltered(items) == {Str(items[i]) : i \in 1..Len(items)}

\* objectIds.filter(id => typeof id === 'string')
BulkStrings(items) ==
    {Str(items[i]) : i \in {j \in 1..Len(items) : ~ObjectIdIsValid(items[j])}}

BulkQuery(items) ==
    ("$or" :> << ("_id" :> In(BulkObjectIds(items))),
                 ("sessionId" :> In(BulkStrings(items))),
                 ("userId" :> In(BulkStrings(items))),
                 ("chatId" :> In(BulkStrings(items))) >>)

BulkResult(c, items) == DeleteMany(c, BulkQuery(items))

(***************************************************************************)
(* browse: the query built from search and filter, and the page.           *)
(***************************************************************************)
SearchFields == <<"_id", "userId", "user_id", "username", "user_name", "chatId",
                  "chat_id", "sessionId", "session_id", "phoneNumber", "phone",
                  "email">>

SearchQuery(search) ==
    ("$or" :> [i \in 1..Len(SearchFields) |-> (SearchFields[i] :> Regex(search))])

\* new RegExp(search, 'i') throws a SyntaxError on an unterminated group
RegExpCompiles(search) ==
    Cardinality({i \in 1..Len(Chars(search)) : Chars(search)[i] = "("})
        = Cardinality({i \in 1..Len(Chars(search)) : Chars(search)[i] = ")"})

FilterByName == "{\"name\":\"a\"}"
FilterByOr == "{\"$or\":[{\"name\":\"a\"}]}"
FilterMalformed == "{\"name\":"

\* JSON.parse of the filter strings of the universe
JSONParse(text) ==
    CASE text = FilterByName -> [ok |-> TRUE, value |-> ("name" :> Eq(Str("a")))]
      [] text = FilterByOr ->
           [ok |-> TRUE, value |-> ("$or" :> << ("name" :> Eq(Str("a"))) >>)]
      [] text = "{}" -> [ok |-> TRUE, value |-> EmptyQuery]
      [] OTHER -> [ok |-> FALSE, value |-> EmptyQuery]

\* query = { ...query, ...customFilter }
MergeFilter(query, customFilter) == Spread(query, customFilter)

BrowseQuery(search, filter) ==
    LET query == IF search # "" THEN SearchQuery(search) ELSE EmptyQuery
    IN IF filter # "{}" /\ JSONParse(filter).ok
       THEN MergeFilter(query, JSONParse(filter).value)
       ELSE query

Skip(page, limit) == (page - 1) * limit

\* mutant of Ceil: the quotient is rounded down
CeilRoundedDown(total, limit) == total \div limit

\* Math.ceil(total / limit)
Ceil(total, limit) == (total + limit - 1) \div limit

Pagination(page, limit, total) ==
    [currentPage |-> page, totalPages |-> Ceil(total, limit), totalDocuments |-> total,
     documentsPerPage |-> limit, hasNextPage |-> Skip(page, limit) + limit < total,
     hasPrevPage |-> page > 1]

NoPagination == Pagination(0, 1, 0)

\* the pages find(query).sort(...).skip(skip).limit(limit) may return
BrowsePages(c, a) ==
    {SkipLimit(s, Skip(a.page, a.limit), a.limit) :
        s \in SortedOrders(Filter(c, BrowseQuery(a.search, a.filter)), a.sortBy,
                           IF a.sortOrder = "desc" THEN -1 ELSE 1)}

BrowseTotal(c, a) == Len(Filter(c, BrowseQuery(a.search, a.filter)))

(***************************************************************************)
(* The connection slot and the requests that change it.                    *)
(*   mongoClient  0 (null) or the client the slot refers to                *)
(*   db           NoDb (null) or a database handle of a client             *)
(*   clients[c]   what became of client c: not created yet ("none"),       *)
(*                created ("new"), connected ("open"), close() called      *)
(*                ("closed"); and the URL it was created with              *)
(*   req[r]       the connect or disconnect handler run r, stopped at an   *)
(*                await (pc), "done" while its response is on the way      *)
(*   discDone     a disconnect has answered success, no connect was in     *)
(*                flight then and none has started since                   *)
(***************************************************************************)
Clients == 1..MaxClients
Reqs == 1..MaxReqs

NoDb == [client |-> 0, name |-> ""]

ReqIdle == [pc |-> "idle", op |-> "none", url |-> "", database |-> "", cl |-> 0,
            h |-> 0, status |-> 0]

UrlShop == "mongodb://a/shop"
UrlBare == "mongodb://b"

\* new URL(url).pathname.replace('/', '')
PathName(url) == CASE url = UrlShop -> "shop" [] OTHER -> ""

\* let dbName = database; if (!dbName) dbName = pathname || 'test'
DbNameOf(url, database) ==
    IF database # "" THEN database
    ELSE IF PathName(url) # "" THEN PathName(url) ELSE "test"

FreeClients == {c \in Clients : clients[c].st = "none"}

ConnectInFlight(r) == req[r].op = "connect" /\ req[r].pc \notin {"idle", "done"}

\* the run has answered: what is left of it is the answer on its way
Done(r, status) ==
    [req EXCEPT ![r] = [ReqIdle EXCEPT !.pc = "done", !.op = req[r].op,
                                       !.status = status]]

\* catch (error) { isConnected = false; res.status(500) }
ConnectCatch(r) ==
    /\ isConnected' = FALSE
    /\ req' = Done(r, 500)

\* mongoClient = new MongoClient(url, ...); await mongoClient.connect()
ConnectCreate(r, rq) ==
    LET c == Min(FreeClients)
    IN /\ mongoClient' = c
       /\ clients' = [clients EXCEPT ![c] = [st |-> "new", url |-> rq.url]]
       /\ req' = [req EXCEPT ![r] = [rq EXCEPT !.pc = "connecting", !.cl = c]]

\* mutant of ConnectBegin: the existing client is replaced without close()
ConnectBeginNoClose(r, url, database) ==
    /\ req[r].pc = "idle"
    /\ url = "" \/ FreeClients # {}
    /\ LET rq == [ReqIdle EXCEPT !.op = "connect", !.url = url, !.database = database]
       IN IF url = ""
          THEN /\ req' = [req EXCEPT ![r] = [rq EXCEPT !.pc = "done", !.status = 400]]
               /\ UNCHANGED <<mongoClient, db, isConnected, clients, discDone>>
          ELSE /\ discDone' = FALSE
               /\ ConnectCreate(r, rq)
               /\ UNCHANGED <<db, isConnected>>
    /\ UNCHANGED <<coll, last>>

\* the handler up to its first await (a run that will create a client starts
\* only while the model has a client left for it)
ConnectBegin(r, url, database) ==
    /\ req[r].pc = "idle"
    /\ \/ url = ""
       \/ Cardinality(FreeClients) >
             Cardinality({q \in Reqs : req[q].pc = "closing" /\ req[q].op = "connect"})
    /\ LET rq == [ReqIdle EXCEPT !.op = "connect", !.url = url, !.database = database]
       IN IF url = ""
          THEN /\ req' = [req EXCEPT ![r] = [rq EXCEPT !.pc = "done", !.status = 400]]
               /\ UNCHANGED <<mongoClient, db, isConnected, clients, discDone>>
          ELSE /\ discDone' = FALSE
               /\ IF mongoClient # 0
                  THEN /\ clients' = [clients EXCEPT ![mongoClient].st = "closed"]
                       /\ req' = [req EXCEPT ![r] = [rq EXCEPT !.pc = "closing"]]
                       /\ UNCHANGED <<mongoClient, db, isConnected>>
                  ELSE /\ ConnectCreate(r, rq)
                       /\ UNCHANGED <<db, isConnected>>
    /\ UNCHANGED <<coll, last>>

\* await mongoClient.close() settles
ConnectClosed(r) ==
    /\ req[r].pc = "closing" /\ req[r].op = "connect"
    /\ \E ok \in BOOLEAN :
          IF ok
          THEN ConnectCreate(r, req[r]) /\ UNCHANGED <<db, isConnected>>
          ELSE ConnectCatch(r) /\ UNCHANGED <<mongoClient, db, clients>>
    /\ UNCHANGED <<discDone, coll, last>>

\* connect() may fail on any client (unreachable server, timeout), and fails
\* on one whose close() was called while it was connecting
ConnectOutcomes(c) == IF clients[c].st = "new" THEN BOOLEAN ELSE {FALSE}

\* await mongoClient.connect() settles; on success the handler runs on to
\* await admin.serverInfo()
ConnectConnected(r) ==
    /\ req[r].pc = "connecting"
    /\ \E ok \in ConnectOutcomes(req[r].cl) :
          IF ok
          THEN /\ clients' = [clients EXCEPT ![req[r].cl].st = "open"]
               /\ IF mongoClient = 0
                  THEN ConnectCatch(r) /\ UNCHANGED db
                  ELSE /\ db' = [client |-> mongoClient,
                                 name |-> DbNameOf(req[r].url, req[r].database)]
                       /\ isConnected' = TRUE
                       /\ req' = [req EXCEPT ![r].pc = "serverInfo", ![r].h = mongoClient]
          ELSE ConnectCatch(r) /\ UNCHANGED <<db, clients>>
    /\ UNCHANGED <<mongoClient, discDone, coll, last>>

\* a command on client c succeeds only while c is open, and may fail anyway
CommandOutcomes(c) == IF clients[c].st = "open" THEN BOOLEAN ELSE {FALSE}

\* await admin.serverInfo() settles; on success the handler calls db.stats()
ConnectServerInfo(r) ==
    /\ req[r].pc = "serverInfo"
    /\ clients' = clients
    /\ \E ok \in CommandOutcomes(req[r].h) :
          IF ok /\ db # NoDb
          THEN /\ req' = [req EXCEPT ![r].pc = "stats", ![r].h = db.client]
               /\ UNCHANGED isConnected
          ELSE ConnectCatch(r)
    /\ UNCHANGED <<mongoClient, db, discDone, coll, last>>

\* await db.stats() settles; res.json({success: true, database: dbName, ...})
ConnectStats(r) ==
    /\ req[r].pc = "stats"
    /\ clients' = clients
    /\ \E ok \in CommandOutcomes(req[r].h) :
          IF ok
          THEN req' = Done(r, 200) /\ UNCHANGED isConnected
          ELSE ConnectCatch(r)
    /\ UNCHANGED <<mongoClient, db, discDone, coll, last>>

\* the disconnect handler up to its await
DisconnectBegin(r) ==
    /\ req[r].pc = "idle"
    /\ LET rq == [ReqIdle EXCEPT !.op = "disconnect"]
       IN IF mongoClient # 0
          THEN /\ clients' = [clients EXCEPT ![mongoClient].st = "closed"]
               /\ req' = [req EXCEPT ![r] = [rq EXCEPT !.pc = "closing"]]
               /\ UNCHANGED discDone
          ELSE /\ req' = [req EXCEPT ![r] = [rq EXCEPT !.pc = "done", !.status = 200]]
               /\ discDone' = ~(\E q \in Reqs : ConnectInFlight(q))
               /\ UNCHANGED clients
    /\ UNCHANGED <<mongoClient, db, isConnected, coll, last>>

\* mutant of DisconnectClosed: db = null is forgotten
DisconnectClosedKeepsDb(r) ==
    /\ req[r].pc = "closing" /\ req[r].op = "disconnect"
    /\ \E ok \in BOOLEAN :
          IF ok
          THEN /\ mongoClient' = 0
               /\ isConnected' = FALSE
               /\ req' = Done(r, 200)
               /\ discDone' = ~(\E q \in Reqs : ConnectInFlight(q))
               /\ UNCHANGED db
          ELSE /\ req' = Done(r, 500)
               /\ UNCHANGED <<mongoClient, db, isConnected, discDone>>
    /\ UNCHANGED <<clients, coll, last>>

\* mutant of DisconnectClosed: isConnected = false is forgotten
DisconnectClosedKeepsFlag(r) ==
    /\ req[r].pc = "closing" /\ req[r].op = "disconnect"
    /\ \E ok \in BOOLEAN :
          IF ok
          THEN /\ mongoClient' = 0
               /\ db' = NoDb
               /\ req' = Done(r, 200)
               /\ discDone' = ~(\E q \in Reqs : ConnectInFlight(q))
               /\ UNCHANGED isConnected
          ELSE /\ req' = Done(r, 500)
               /\ UNCHANGED <<mongoClient, db, isConnected, discDone>>
    /\ UNCHANGED <<clients, coll, last>>

\* await mongoClient.close() settles in the disconnect handler
DisconnectClosed(r) ==
    /\ req[r].pc = "closing" /\ req[r].op = "disconnect"
    /\ \E ok \in BOOLEAN :
          IF ok
          THEN /\ mongoClient' = 0
               /\ db' = NoDb
               /\ isConnected' = FALSE
               /\ req' = Done(r, 200)
               /\ discDone' = ~(\E q \in Reqs : ConnectInFlight(q))
          ELSE /\ req' = Done(r, 500)
               /\ UNCHANGED <<mongoClient, db, isConnected, discDone>>
    /\ UNCHANGED <<clients, coll, last>>

\* the response of run r reaches its caller
Deliver(r) ==
    /\ req[r].pc = "done"
    /\ req' = [req EXCEPT ![r] = ReqIdle]
    /\ UNCHANGED <<mongoClient, db, isConnected, clients, discDone, coll, last>>

(***************************************************************************)
(* The document handlers.  Each runs as one step and leaves its response   *)
(* in last until it is delivered; one document request is outstanding at a *)
(* time.  last keeps the collection as it was before the handler ran.      *)
(***************************************************************************)
\* what a handler gets when it uses db: nothing to dereference ("null"), a
\* handle of a client that is not open ("dead"), or a working one ("live")
Handle ==
    IF db = NoDb THEN "null"
    ELSE IF clients[db.client].st = "open" THEN "live" ELSE "dead"

NoLast == [op |-> "none", args |-> <<>>, status |-> 0, pre |-> <<>>, docs |-> <<>>,
           n |-> 0, m |-> 0, pg |-> NoPagination, handle |-> "null",
           afterDisc |-> FALSE]

Response(op, args, status, docs, n, m, pg) ==
    [op |-> op, args |-> args, status |-> status, pre |-> coll, docs |-> docs,
     n |-> n, m |-> m, pg |-> pg, handle |-> Handle, afterDisc |-> discDone]

\* catch (error) { res.status(500) }: db is null (TypeError) or the driver
\* refuses the command on a client that is not open
InternalError(op, args) == Response(op, args, 500, <<>>, 0, 0, NoPagination)

\* app.get('/api/collections/:collectionName/:id')
GetOne(id) ==
    /\ last.op = "none"
    /\ LET args == [id |-> id]
           document == GetOneDoc(coll, id)
       IN last' = IF Handle # "live" THEN InternalError("getOne", args)
                  ELSE IF document = <<>>
                  THEN Response("getOne", args, 404, <<>>, 0, 0, NoPagination)
                  ELSE Response("getOne", args, 200, document, 1, 0, NoPagination)
    /\ UNCHANGED <<connVars, coll>>

\* app.put('/api/collections/:collectionName/:id')
Update(id, body) ==
    /\ last.op = "none"
    /\ LET args == [id |-> id, body |-> body]
           result == UpdateResult(coll, id, body)
       IN IF Handle # "live"
          THEN last' = InternalError("update", args) /\ coll' = coll
          ELSE /\ coll' = result.coll
               /\ last' = Response("update", args, UpdateStatus(result), <<>>,
                                   result.matchedCount, result.modifiedCount,
                                   NoPagination)
    /\ UNCHANGED connVars

\* app.delete('/api/collections/:collectionName/:id')
DeleteDoc(id) ==
    /\ last.op = "none"
    /\ LET args == [id |-> id]
           result == DeleteResult(coll, id)
       IN IF Handle # "live"
          THEN last' = InternalError("deleteOne", args) /\ coll' = coll
          ELSE /\ coll' = result.coll
               /\ last' = Response("deleteOne", args,
                                   IF result.deletedCount = 0 THEN 404 ELSE 200,
                                   <<>>, result.deletedCount, 0, NoPagination)
    /\ UNCHANGED connVars

\* app.post('/api/collections/:collectionName/bulk-delete')
BulkDelete(ids) ==
    /\ last.op = "none"
    /\ LET args == [ids |-> ids]
           result == BulkResult(coll, ids.items)
       IN IF BulkIdsRejected(ids)
          THEN /\ last' = Response("bulkDelete", args, 400, <<>>, 0, 0, NoPagination)
               /\ coll' = coll
          ELSE IF Handle # "live"
          THEN last' = InternalError("bulkDelete", args) /\ coll' = coll
          ELSE /\ coll' = result.coll
               /\ last' = Response("bulkDelete", args, 200, <<>>, result.deletedCount,
                                   0, NoPagination)
    /\ UNCHANGED connVars

\* app.get('/api/collections/:collectionName')
Browse(a) ==
    /\ last.op = "none"
    /\ IF ~isConnected \/ db = NoDb
       THEN last' = Response("browse", a, 503, <<>>, 0, 0, NoPagination)
       ELSE IF Handle # "live" \/ (a.search # "" /\ ~RegExpCompiles(a.search))
       THEN last' = InternalError("browse", a)
       ELSE \E documents \in BrowsePages(coll, a) :
               last' = Response("browse", a, 200, documents, BrowseTotal(coll, a), 0,
                                Pagination(a.page, a.limit, BrowseTotal(coll, a)))
    /\ UNCHANGED <<connVars, coll>>

(***************************************************************************)
(* Inputs and initial states.                                              *)
(***************************************************************************)
IdStrings == {H1, H2, S1}

Doc(id, sessionId, userId, chatId, name) ==
    [_id |-> id, sessionId |-> sessionId, userId |-> userId, chatId |-> chatId,
     name |-> name, updatedAt |-> None]

\* primary keys are ObjectIds or, in collections written by other programs,
\* plain strings
IdValues == {ObjectId(H1), ObjectId(H2), Str(S1)}

\* sessionId, userId and chatId of a document: none of them, or one
AltFields ==
    {<<None, None, None>>, <<Str(S1), None, None>>, <<None, Str(S1), None>>,
     <<None, None, Str(S1)>>, <<None, None, Str(H1)>>}

\* a document an update has stamped in this same millisecond
Stamped(d) == [d EXCEPT !.updatedAt = ServerNow]

Docs ==
    {Doc(id, alt[1], alt[2], alt[3], n) :
        id \in IdValues, alt \in AltFields, n \in {Str("a"), Str("b")}}
      \cup {Stamped(Doc(ObjectId(H1), None, None, None, Str("b"))),
            Stamped(Doc(ObjectId(H2), Str(S1), None, None, Str("b")))}

UniqueIds(c) == \A i, j \in 1..Len(c) : i # j => c[i]._id # c[j]._id

Colls ==
    UNION {{c \in [1..n -> Docs] : UniqueIds(c)} : n \in 0..MaxDocs}

\* request bodies of update
Patches ==
    {("name" :> Str("b")),
     ("_id" :> Str(H2)) @@ ("name" :> Str("b")),
     ("_id" :> Str(S1)),
     ("name" :> Str("a")) @@ ("updatedAt" :> Str("a"))}

\* request bodies of bulkDelete
BulkInputs ==
    {IdsAbsent, IdsNotList}
        \cup {IdsList(items) : items \in
                {<<>>, <<H1>>, <<H2>>, <<S1>>, <<H1, S1>>, <<S1, H2>>, <<H1, H2>>,
                 <<S1, S1>>}}

BrowseArgs(pages, limits, sortBys, sortOrders, searches, filters) ==
    [page : pages, limit : limits, sortBy : sortBys, sortOrder : sortOrders,
     search : searches, filter : filters]

\* the query parameters of browse: every search with every filter on the
\* first pages of the default sort, and every sort and page of the whole
\* collection
BrowseInputs ==
    BrowseArgs({1, 2}, {1}, {"_id"}, {"desc"}, {"", "U1", "("},
               {"{}", FilterByName, FilterByOr, FilterMalformed})
        \cup BrowseArgs({1, 2}, {1, 2}, {"_id", "name"}, {"desc", "asc"}, {""}, {"{}"})

\* States of the connection slot that runs of Spec reach with no request in
\* flight (SlotReached, see NotSlotNever .. NotSlotStale): never connected; connected;
\* disconnected after a connection; and after a reconnect whose
\* mongoClient.connect() failed, where db still is the handle of the closed
\* first client.
NoClient == [st |-> "none", url |-> ""]

SlotNever ==
    [mongoClient |-> 0, db |-> NoDb, isConnected |-> FALSE, discDone |-> FALSE,
     clients |-> [c \in Clients |-> NoClient]]

SlotLive ==
    [mongoClient |-> 1, db |-> [client |-> 1, name |-> "shop"], isConnected |-> TRUE,
     discDone |-> FALSE,
     clients |-> [c \in Clients |-> IF c = 1 THEN [st |-> "open", url |-> UrlShop]
                                    ELSE NoClient]]

SlotDisconnected ==
    [mongoClient |-> 0, db |-> NoDb, isConnected |-> FALSE, discDone |-> TRUE,
     clients |-> [c \in Clients |-> IF c = 1 THEN [st |-> "closed", url |-> UrlShop]
                                    ELSE NoClient]]

SlotStale ==
    [mongoClient |-> 2, db |-> [client |-> 1, name |-> "shop"], isConnected |-> FALSE,
     discDone |-> FALSE,
     clients |-> [c \in Clients |->
                    IF c = 1 THEN [st |-> "closed", url |-> UrlShop]
                    ELSE IF c = 2 THEN [st |-> "new", url |-> UrlBare]
                    ELSE NoClient]]

SlotStates == {SlotNever, SlotLive, SlotDisconnected, SlotStale}

Slot ==
    [mongoClient |-> mongoClient, db |-> db, isConnected |-> isConnected,
     discDone |-> discDone, clients |-> clients]

\* a connected server in front of any collection, or a server in one of the
\* other slot states (where no handler gets as far as the store) in front of
\* a collection of at most one document
InitData ==
    /\ \E s \in SlotStates :
          /\ coll \in IF s = SlotLive THEN Colls ELSE {c \in Colls : Len(c) <= 1}
          /\ mongoClient = s.mongoClient
          /\ db = s.db
          /\ isConnected = s.isConnected
          /\ discDone = s.discDone
          /\ clients = s.clients
    /\ req = [r \in Reqs |-> ReqIdle]
    /\ last = NoLast

NextData ==
    \/ \E id \in IdStrings : GetOne(id)
    \/ \E id \in IdStrings, body \in Patches : Update(id, body)
    \/ \E id \in IdStrings : DeleteDoc(id)
    \/ \E ids \in BulkInputs : BulkDelete(ids)
    \/ \E a \in BrowseInputs : Browse(a)

\* one document request served by the server
SpecData == InitData /\ [][NextData]_vars

\* the collection the remote store holds when the server starts
SeedColl ==
    << Doc(ObjectId(H1), Str(S1), None, None, Str("a")),
       Doc(Str(S1), None, None, None, Str("b")) >>

ConnectInputs ==
    {[url |-> "", database |-> ""], [url |-> UrlShop, database |-> ""],
     [url |-> UrlBare, database |-> "crm"]}

\* the state after the module is loaded: let mongoClient = null, db = null,
\* isConnected = false
Init ==
    /\ mongoClient = 0
    /\ db = NoDb
    /\ isConnected = FALSE
    /\ clients = [c \in Clients |-> NoClient]
    /\ req = [r \in Reqs |-> ReqIdle]
    /\ discDone = FALSE
    /\ coll = SeedColl
    /\ last = NoLast

Next ==
    \/ \E r \in Reqs, i \in ConnectInputs : ConnectBegin(r, i.url, i.database)
    \/ \E r \in Reqs : ConnectClosed(r)
    \/ \E r \in Reqs : ConnectConnected(r)
    \/ \E r \in Reqs : ConnectServerInfo(r)
    \/ \E r \in Reqs : ConnectStats(r)
    \/ \E r \in Reqs : DisconnectBegin(r)
    \/ \E r \in Reqs : DisconnectClosed(r)
    \/ \E r \in Reqs : Deliver(r)

\* the connect and disconnect requests of the server
Spec == Init /\ [][Next]_vars

\* no connect or disconnect request is being handled or answered
Quiet == \A r \in Reqs : req[r].pc = "idle"

NextSequential ==
    \/ Quiet /\ \E r \in Reqs, i \in ConnectInputs : ConnectBegin(r, i.url, i.database)
    \/ \E r \in Reqs : ConnectClosed(r)
    \/ \E r \in Reqs : ConnectConnected(r)
    \/ \E r \in Reqs : ConnectServerInfo(r)
    \/ \E r \in Reqs : ConnectStats(r)
    \/ Quiet /\ \E r \in Reqs : DisconnectBegin(r)
    \/ \E r \in Reqs : DisconnectClosed(r)
    \/ \E r \in Reqs : Deliver(r)

\* the same requests sent one after the other: a caller waits for the answer
\* of one before it sends the next
SpecSequential == Init /\ [][NextSequential]_vars

NextServer ==
    \/ Next
    \/ GetOne(S1)
    \/ Update(S1, ("name" :> Str("b")))
    \/ DeleteDoc(S1)
    \/ BulkDelete(IdsList(<<S1>>))
    \/ Browse([page |-> 1, limit |-> 2, sortBy |-> "_id", sortOrder |-> "desc",
               search |-> "", filter |-> "{}"])

\* the same with one document request served at some moment of the run
SpecServer == Init /\ [][NextServer]_vars

\* every slot state SpecData starts in is reached by Spec; each conjunct is
\* the negation of "slot s is reached with no request in flight"
SlotReached(s) == Slot = s /\ \A r \in Reqs : req[r].pc = "idle"
NotSlotNever == ~SlotReached(SlotNever)
NotSlotLive == ~SlotReached(SlotLive)
NotSlotDisconnected == ~SlotReached(SlotDisconnected)
NotSlotStale == ~SlotReached(SlotStale)

(***************************************************************************)
(* Properties.                                                             *)
(***************************************************************************)
IdsOf(c) == [i \in 1..Len(c) |-> c[i]._id]

Range(c) == {c[i] : i \in 1..Len(c)}

AltNames == {"sessionId", "userId", "chatId"}

\* one of the conventional alternate identifier fields of d is the string id
AltMatch(d, id) == \E f \in AltNames : d[f] = Str(id)

Served(op) == last.op = op /\ last.handle = "live"

\* C1: after a disconnect has answered (and before any connect starts), a
\* browse, getOne, update or deleteOne request is answered 503 (not
\* connected), never 500.
C1_NotConnectedAfterDisconnect ==
    (last.op \in {"browse", "getOne", "update", "deleteOne"} /\ last.afterDisc)
        => last.status = 503

\* C2: whenever a connect request fails (here: with the 500 of its catch
\* block, i.e. on an error of close, connect, serverInfo or stats), the slot
\* is disconnected at that moment: isConnected is false and db, the handle
\* the document handlers use, is null.
C2_FailedConnectClearsSlot ==
    [][\A r \in Reqs :
          (req[r].pc # "done" /\ req'[r].pc = "done" /\ req'[r].op = "connect"
             /\ req'[r].status = 500)
              => (isConnected' = FALSE /\ db' = NoDb)]_vars

\* C3: at most one client is created or connected and not yet closed, and
\* that client is the one the slot refers to.
C3_OneOpenClient ==
    LET live == {c \in Clients : clients[c].st \in {"new", "open"}}
    IN Cardinality(live) <= 1 /\ \A c \in live : mongoClient = c

\* C4: an update leaves the _id of every document of the collection as it
\* was (position by position, hence also as a multiset), whatever the patch
\* carries.
C4_UpdateKeepsPrimaryKeys ==
    last.op = "update" => IdsOf(coll) = IdsOf(last.pre)

\* C4 happens: an update that matched a document, with a patch whose _id is
\* not the _id of the matched document
C4_Witness ==
    /\ Served("update") /\ last.status = 200
    /\ "_id" \in DOMAIN last.args.body
    /\ \E i \in 1..Len(coll) :
          /\ coll[i] # last.pre[i]
          /\ last.args.body["_id"] # last.pre[i]._id

\* C5: getOne finds a document for an id exactly when update matches one
\* and exactly when deleteOne deletes one in the same collection.
C5_SameResolver ==
    Served("getOne") =>
        /\ (last.status = 200) <=>
             (UpdateResult(last.pre, last.args.id, ("name" :> Str("b"))).matchedCount = 1)
        /\ (last.status = 200) <=>
             (DeleteResult(last.pre, last.args.id).deletedCount = 1)

\* C6: for a valid primary-key id and a collection holding the document
\* with that primary key, getOne answers that document, whatever the other
\* documents carry in sessionId, userId or chatId.
C6_GetOneByPrimaryKey ==
    Served("getOne") =>
        \A i \in 1..Len(last.pre) :
            (ObjectIdIsValid(last.args.id) /\ last.pre[i]._id = ObjectId(last.args.id))
                => (last.status = 200 /\ last.docs = <<last.pre[i]>>)

\* C6 happens: the document with the primary key comes after a document
\* that carries the same string in an alternate field
C6_Witness ==
    /\ Served("getOne") /\ last.status = 200
    /\ Len(last.pre) = 2
    /\ AltMatch(last.pre[1], last.args.id)
    /\ last.pre[2]._id = ObjectId(last.args.id)
    /\ last.docs = <<last.pre[2]>>

\* the documents a handler changed or removed: those of the collection
\* before that are no longer in it as they were
Touched == Range(last.pre) \ Range(coll)

\* C7: for an id that is no valid primary-key encoding, getOne,
\* update and deleteOne return, change or remove a document only if one of
\* its alternate fields equals the id, and answer without an error.
C7_OnlyAlternateFields ==
    (last.op \in {"getOne", "update", "deleteOne"} /\ last.handle = "live"
        /\ ~ObjectIdIsValid(last.args.id))
    => /\ last.status \in {200, 404}
       /\ \A d \in Touched \cup Range(last.docs) : AltMatch(d, last.args.id)

\* what holds in place of C7: the same, except that getOne also returns
\* the document whose _id is the id as a plain string; update and deleteOne
\* never touch a document none of whose alternate fields equals the id.
C7_OnlyAlternateFieldsOrStringId ==
    (last.op \in {"getOne", "update", "deleteOne"} /\ last.handle = "live"
        /\ ~ObjectIdIsValid(last.args.id))
    => /\ last.status \in {200, 404}
       /\ \A d \in Touched : AltMatch(d, last.args.id)
       /\ \A d \in Range(last.docs) :
             AltMatch(d, last.args.id) \/ d._id = Str(last.args.id)
       /\ (last.status = 200) <=> (Touched \cup Range(last.docs) # {})

\* that case happens: deleteOne with an opaque id removes the document that carries
\* it in an alternate field and passes over a document that has no such field
AlternateFieldsWitness ==
    /\ Served("deleteOne") /\ ~ObjectIdIsValid(last.args.id)
    /\ last.status = 200
    /\ Len(last.pre) = 2 /\ Len(coll) = 1
    /\ \A f \in AltNames : coll[1][f] = None
    /\ coll[1] = last.pre[1]

\* the documents bulkDelete is to remove for the strings items
C8_Expected(c, items) ==
    {d \in Range(c) :
        \E i \in 1..Len(items) :
            IF ObjectIdIsValid(items[i])
            THEN d._id = ObjectId(items[i])
            ELSE AltMatch(d, items[i])}

\* C8: bulkDelete with a non-empty list removes exactly the documents whose
\* primary key is a decoded valid id of the list or that carry an opaque
\* string of the list in an alternate field, keeps the others in their
\* order, and reports the number of documents removed.
C8_BulkDeleteExactUnion ==
    (Served("bulkDelete") /\ last.args.ids.kind = "list"
        /\ last.args.ids.items # <<>>)
    => /\ last.status = 200
       /\ Range(coll) = Range(last.pre) \ C8_Expected(last.pre, last.args.ids.items)
       /\ Len(coll) = Cardinality(Range(coll))
       /\ last.n = Len(last.pre) - Len(coll)

\* C8 happens: a list with a valid and an opaque id; one document goes by
\* its alternate field, and one that carries the valid hex string in an
\* alternate field stays
C8_Witness ==
    /\ Served("bulkDelete") /\ last.args.ids.items = <<H1, S1>>
    /\ last.n = 1
    /\ \E d \in Range(coll) : AltMatch(d, H1)
    /\ \E d \in Touched : AltMatch(d, S1)

C9_BadIds(ids) == ids.kind # "list" \/ ids.items = <<>>

\* C9: bulkDelete with ids absent, not a list or an empty list answers 400
\* and changes neither the collection nor the connection slot, in every
\* state of the slot.
C9_BulkDeleteRejectsBadIds ==
    [][(last.op = "none" /\ last'.op = "bulkDelete" /\ C9_BadIds(last'.args.ids))
          => (last'.status = 400 /\ coll' = coll /\ UNCHANGED connVars)]_vars

\* C9 happens: an empty list sent to a server whose db is null
C9_Witness ==
    /\ last.op = "bulkDelete" /\ last.args.ids = IdsList(<<>>)
    /\ last.handle = "null" /\ last.status = 400

\* the search condition and the filter condition, each on its own
C10_SearchHolds(d, search) ==
    \E i \in 1..Len(SearchFields) : RegExpTest(search, Get(d, SearchFields[i]))

C10_FilterHolds(d, filter) == Matches(d, JSONParse(filter).value)

\* C10: a browse with a search term and a filter that parses counts and
\* returns exactly the documents that satisfy both.
C10_SearchAndFilter ==
    (Served("browse") /\ last.status = 200 /\ last.args.search # ""
        /\ last.args.filter \in {FilterByName, FilterByOr})
    => /\ last.n = Cardinality({d \in Range(last.pre) :
                      /\ C10_SearchHolds(d, last.args.search)
                      /\ C10_FilterHolds(d, last.args.filter)})
       /\ \A d \in Range(last.docs) :
             /\ C10_SearchHolds(d, last.args.search)
             /\ C10_FilterHolds(d, last.args.filter)

\* the documents a browse with this search and no filter selects
C11_SearchOnly(c, search) ==
    {d \in Range(c) : search = "" \/ C10_SearchHolds(d, search)}

\* the number of documents on a page of total documents
C11_PageLen(total, page, limit) ==
    IF total <= (page - 1) * limit THEN 0
    ELSE IF total - (page - 1) * limit < limit THEN total - (page - 1) * limit
         ELSE limit

\* the answer of a browse whose filter is dropped: the total and the page of
\* the documents the search alone selects, as the request without a filter
\* would give them
C11_AsWithoutFilter ==
    /\ last.status = 200
    /\ last.n = Cardinality(C11_SearchOnly(last.pre, last.args.search))
    /\ Range(last.docs) \subseteq C11_SearchOnly(last.pre, last.args.search)
    /\ Len(last.docs) = C11_PageLen(last.n, last.args.page, last.args.limit)
    /\ last.docs \in BrowsePages(last.pre, [last.args EXCEPT !.filter = "{}"])

\* C11: a browse with any search term and a filter string that does not
\* parse does not fail, and answers the total and the documents of the same
\* request without a filter (those the search selects, all when the search
\* is empty).
C11_MalformedFilterIgnored ==
    (Served("browse") /\ last.args.filter = FilterMalformed) => C11_AsWithoutFilter

\* what holds of the filter alone: the same for every search term other
\* than the one that is no regular expression
C11_MalformedFilterIgnoredPlainSearch ==
    (Served("browse") /\ last.args.filter = FilterMalformed /\ last.args.search # "(")
        => C11_AsWithoutFilter

\* that case happens: a malformed filter next to a search that selects one
\* document of two
C11_PlainSearchWitness ==
    /\ Served("browse") /\ last.args.filter = FilterMalformed
    /\ last.args.search = "U1" /\ last.args.page = 1
    /\ Len(last.pre) = 2 /\ last.n = 1 /\ Len(last.docs) = 1

\* the sort of the request does not put y before x
C12_InOrder(x, y, a) ==
    IF a.sortOrder = "desc"
    THEN ~ValLess(Get(x, a.sortBy), Get(y, a.sortBy))
    ELSE ~ValLess(Get(y, a.sortBy), Get(x, a.sortBy))

\* page 1 followed by page 2 is the first 2N documents of collection c under
\* the sort of request a, and no document is on both pages
C12_FirstTwoPages(c, page1, page2, a) ==
    LET both == page1 \o page2
        rest == Range(c) \ Range(both)
    IN /\ Range(page1) \cap Range(page2) = {}
       /\ Len(both) = IF Len(c) < 2 * a.limit THEN Len(c) ELSE 2 * a.limit
       /\ \A i, j \in 1..Len(both) : i < j => C12_InOrder(both[i], both[j], a)
       /\ \A d \in rest : \A i \in 1..Len(both) : C12_InOrder(both[i], d, a)

\* C12: on an unmutated collection, whatever browse(page = 1, limit = N)
\* answered, the answer of browse(page = 2, limit = N) with the same sort is
\* disjoint from it, and the two together are the first 2N documents of the
\* collection under that sort.
C12_PagesPartitionSorted ==
    (Served("browse") /\ last.status = 200 /\ last.args.page = 2
        /\ last.args.search = "" /\ last.args.filter = "{}")
    => \A page1 \in BrowsePages(last.pre, [last.args EXCEPT !.page = 1]) :
          C12_FirstTwoPages(last.pre, page1, last.docs, last.args)

\* what holds in place of C12: the same when the sort field is the primary
\* key, which no two documents share
C12_PagesPartitionSortedById ==
    (Served("browse") /\ last.status = 200 /\ last.args.page = 2
        /\ last.args.search = "" /\ last.args.filter = "{}"
        /\ last.args.sortBy = "_id")
    => \A page1 \in BrowsePages(last.pre, [last.args EXCEPT !.page = 1]) :
          C12_FirstTwoPages(last.pre, page1, last.docs, last.args)

\* that case happens: the second page of two documents, one a page
C12_ByIdWitness ==
    /\ Served("browse") /\ last.args.page = 2 /\ last.args.limit = 1
    /\ last.args.sortBy = "_id" /\ last.args.search = ""
    /\ Len(last.pre) = 2 /\ Len(last.docs) = 1

\* the predicate update resolves id to holds of document d
C13_Resolves(d, id) ==
    IF ObjectIdIsValid(id) THEN d._id = ObjectId(id) ELSE AltMatch(d, id)

\* C13: update answers 404 exactly when no document of the collection
\* matches the resolved predicate (matchedCount is 0), and then the
\* collection is left as it was; when a document matched it answers success,
\* also when nothing was modified.
C13_UpdateNotFound ==
    Served("update") =>
        /\ last.status \in {200, 404}
        /\ (last.status = 404) <=>
              ~(\E d \in Range(last.pre) : C13_Resolves(d, last.args.id))
        /\ (last.status = 404) <=> (last.n = 0)
        /\ (last.status = 404) => (coll = last.pre)

\* C13 happens: an update that matched a document and modified nothing
C13_Witness ==
    /\ Served("update") /\ last.status = 200
    /\ last.n = 1 /\ last.m = 0
    /\ coll = last.pre
    /\ \E d \in Range(last.pre) : C13_Resolves(d, last.args.id)

\* in this step run r stops at its await of close(): the client of the slot
\* has been closed and no client has been created
C14_ClosesPrior(r) ==
    (req[r].pc = "idle" /\ req'[r].op = "connect" /\ req'[r].pc = "closing")
    => /\ mongoClient # 0
       /\ clients'[mongoClient].st = "closed"
       /\ mongoClient' = mongoClient
       /\ \A c \in Clients : clients[c].st = "none" => clients'[c].st = "none"

\* in this step run r creates its client: it has awaited the close of the
\* client it found, or it found none; the client it replaces in the slot has
\* been closed; the new client is created, not yet connected
C14_CreatesAfterClose(r) ==
    (req[r].cl = 0 /\ req'[r].cl # 0)
    => /\ \/ req[r].pc = "closing"
          \/ req[r].pc = "idle" /\ mongoClient = 0
       /\ mongoClient = 0 \/ clients[mongoClient].st = "closed"
       /\ clients[req'[r].cl].st = "none"
       /\ clients'[req'[r].cl].st = "new"
       /\ mongoClient' = req'[r].cl

\* a connect with a URL that finds the slot empty goes on to connect its new
\* client: nothing is closed and nothing fails
C14_NoPriorNoError(r) ==
    (req[r].pc = "idle" /\ mongoClient = 0 /\ req'[r].op = "connect"
        /\ req'[r].pc # "done")
    => /\ req'[r].pc = "connecting"
       /\ \A c \in Clients : clients[c].st # "none" => clients'[c] = clients[c]

\* in this step run r answers success: the slot refers to its client, which
\* is open, and every other client has been closed
C14_OnlyNewReferenced(r) ==
    (req[r].op = "connect" /\ req[r].pc # "done" /\ req'[r].pc = "done"
        /\ req'[r].status = 200)
    => /\ mongoClient' = req[r].cl
       /\ db'.client = req[r].cl
       /\ isConnected'
       /\ clients'[req[r].cl].st = "open"
       /\ \A c \in Clients \ {req[r].cl} : clients'[c].st \in {"none", "closed"}

\* C14: in every run of a connect request the client found in the slot is
\* closed, and that close awaited, before the new client is created and then
\* connected; a connect that finds no client skips the close without error;
\* and when a connect sent on its own answers success, the client that was
\* active before is closed and the slot refers to the new one only.
C14_ConnectReplacesHandle ==
    [][\A r \in Reqs :
          /\ C14_ClosesPrior(r)
          /\ C14_CreatesAfterClose(r)
          /\ C14_NoPriorNoError(r)
          /\ C14_OnlyNewReferenced(r)]_vars

\* the order of one run's steps, for overlapping runs too (checked under
\* Spec): close is called and awaited before the run creates its client
C14_CloseAwaitedBeforeCreate ==
    [][\A r \in Reqs :
          /\ C14_ClosesPrior(r)
          /\ (req[r].cl = 0 /\ req'[r].cl # 0)
               => (req[r].pc = "closing" \/ (req[r].pc = "idle" /\ mongoClient = 0))
          /\ C14_NoPriorNoError(r)]_vars

\* C14 happens: a second connect has answered success; the first client is
\* closed, the second open and in the slot
C14_Witness ==
    /\ \E r \in Reqs :
          req[r].pc = "done" /\ req[r].op = "connect" /\ req[r].status = 200
    /\ clients[1].st = "closed" /\ clients[1].url # ""
    /\ clients[2].st = "open"
    /\ mongoClient = 2 /\ db.client = 2 /\ isConnected

\* C15: disconnect may be called in every state of the slot.  With no client
\* in the slot (never connected, or disconnected already) it answers success
\* at once and leaves the slot as it is, which is empty; with a client in
\* the slot it closes that client and, once close() has resolved, answers
\* success with mongoClient = null, db = null, isConnected = false.  (It
\* answers 500, the slot untouched, only when close() itself rejects.)
C15_DisconnectClears ==
    [][\A r \in Reqs :
          /\ (req[r].pc = "idle" /\ req'[r].op = "disconnect")
               => IF mongoClient = 0
                  THEN /\ req'[r].pc = "done" /\ req'[r].status = 200
                       /\ UNCHANGED <<mongoClient, db, isConnected, clients>>
                       /\ db = NoDb /\ isConnected = FALSE
                  ELSE /\ req'[r].pc = "closing"
                       /\ clients'[mongoClient].st = "closed"
          /\ (req[r].op = "disconnect" /\ req[r].pc = "closing"
                /\ req'[r].pc = "done")
               => \/ /\ req'[r].status = 200
                     /\ mongoClient' = 0 /\ db' = NoDb /\ isConnected' = FALSE
                  \/ /\ req'[r].status = 500
                     /\ UNCHANGED <<mongoClient, db, isConnected>>]_vars

\* C15 happens: two disconnects have answered success after a connection;
\* its client is closed and the slot is empty
C15_Witness ==
    /\ \A r \in {1, 2} :
          req[r].pc = "done" /\ req[r].op = "disconnect" /\ req[r].status = 200
    /\ clients[1].st = "closed"
    /\ mongoClient = 0 /\ db = NoDb /\ isConnected = FALSE

\* the least k with k * limit >= total
C16_Ceiling(total, limit) ==
    CHOOSE k \in 0..total : k * limit >= total /\ \A j \in 0..(k - 1) : j * limit < total

\* C16: the pagination block of a browse answer reports ceiling(total/limit)
\* pages, a previous page exactly when page > 1, and a next page exactly when
\* documents remain after this page, which is exactly when the current page
\* is before the last.
C16_PaginationBlock ==
    (Served("browse") /\ last.status = 200) =>
        LET page == last.args.page
            limit == last.args.limit
            total == last.n
        IN /\ last.pg.currentPage = page
           /\ last.pg.totalDocuments = total
           /\ last.pg.documentsPerPage = limit
           /\ last.pg.totalPages = C16_Ceiling(total, limit)
           /\ last.pg.hasPrevPage <=> (page > 1)
           /\ last.pg.hasNextPage <=> ((page - 1) * limit + limit < total)
           /\ last.pg.hasNextPage <=> (last.pg.currentPage < last.pg.totalPages)

\* C16 happens: a total the limit does not divide, on a page that is the last
C16_Witness ==
    /\ Served("browse") /\ last.status = 200
    /\ last.args.limit = 2 /\ last.n = 1
    /\ last.pg.totalPages = 1 /\ last.pg.hasNextPage = FALSE

\* C17: a browse that passes the connection check (it is not answered 503)
\* works on a handle of a client that is connected and not closed.
C17_ReadersSeeLiveHandle ==
    (last.op = "browse" /\ last.status # 503) => last.handle = "live"

\* C18: an update that answers success changes no document but the one it
\* matched; on that one every field of the patch other than _id has the
\* patch's value, updatedAt is the server's timestamp (also when the patch
\* carries an updatedAt), and every other field, _id among them, is as it was.
C18_UpdateFrame ==
    (Served("update") /\ last.status = 200) =>
        LET body == last.args.body
            patched == (DOMAIN body) \ {"_id", "updatedAt"}
        IN /\ Len(coll) = Len(last.pre)
           /\ \E i \in 1..Len(last.pre) :
                 /\ C13_Resolves(last.pre[i], last.args.id)
                 /\ \A j \in 1..Len(last.pre) : j # i => coll[j] = last.pre[j]
                 /\ DOMAIN coll[i] = (DOMAIN last.pre[i]) \cup patched \cup {"updatedAt"}
                 /\ coll[i].updatedAt = ServerNow
                 /\ \A f \in patched : coll[i][f] = body[f]
                 /\ \A f \in (DOMAIN last.pre[i]) \ (patched \cup {"updatedAt"}) :
                       coll[i][f] = last.pre[i][f]

\* C18 happens: a patch with a name and an updatedAt of its own, applied to
\* one document of two
C18_Witness ==
    /\ Served("update") /\ last.status = 200
    /\ "updatedAt" \in DOMAIN last.args.body
    /\ last.args.body["updatedAt"] # ServerNow
    /\ Len(last.pre) = 2
    /\ \E i \in 1..2 :
          /\ coll[i] # last.pre[i]
          /\ coll[i].name = last.args.body["name"]
          /\ coll[i].name # last.pre[i].name
          /\ coll[i].updatedAt = ServerNow

\* the URL and the database name of one connect request
C19_Pairs ==
    {<<i.url, DbNameOf(i.url, i.database)>> : i \in {j \in ConnectInputs : j.url # ""}}

\* C19: when all connect requests have run to completion and the slot is
\* connected, db is a database of a client whose URL and database name come
\* from one and the same request; and a connect that answers success has
\* selected its database, and read its statistics, on the client it created.
C19_HandleOfOneRequest ==
    [][/\ ((\A r \in Reqs : req'[r].pc \in {"idle", "done"}) /\ isConnected'
             /\ db' # NoDb)
            => <<clients'[db'.client].url, db'.name>> \in C19_Pairs
       /\ \A r \in Reqs :
             (req[r].op = "connect" /\ req[r].pc # "done" /\ req'[r].pc = "done"
                /\ req'[r].status = 200)
             => req[r].h = req[r].cl]_vars

\* C20: whenever isConnected is true, mongoClient and db are both set.
C20_ConnectedHasHandles ==
    isConnected => (mongoClient # 0 /\ db # NoDb)

\* C20 happens: the flag is true while a disconnect waits for close() and a
\* connect has created the next client
C20_Witness ==
    /\ isConnected /\ mongoClient # 0 /\ db # NoDb
    /\ db.client # mongoClient
    /\ \E r \in Reqs : req[r].op = "disconnect" /\ req[r].pc = "closing"
    /\ \E r \in Reqs : req[r].op = "connect" /\ req[r].pc = "connecting"

====
